---- MODULE Spec2Model ----
(***************************************************************************)
(* Model of the retrieval engine of Agentic_Rag:                           *)
(*   - VectorStore (src/app/services/vector_store.py): a FAISS flat L2     *)
(*     index with parallel metadata, soft delete, rebuild and persistence; *)
(*   - the LangGraph pipeline (src/app/services/rag_pipeline.py):          *)
(*     retrieve -> grade_chunks -> [rewrite_query -> retrieve]* -> generate*)
(*                                                                         *)
(* Positions are 0-based as in the source; TLA+ sequences are 1-based, so  *)
(* the record at position p is meta[p + 1].                                *)
(***************************************************************************)
EXTENDS Integers, Sequences, FiniteSets, TLC

\* ------------------------------------------------------------------ bounds

\* Largest number of rows the index may hold (guards the callers of add_chunks).
MaxRows == 3
\* Largest number of rows when the index is filled one chunk at a time.
MaxSingleRows == 5
\* Largest k a caller passes to search.
MaxK == 2

\* ------------------------------------------------------------------ inputs

DocIds == {"d1", "d2"}
DocNames == {"f1"}
Texts == {"a", "b"}
Queries == {"a", "c"}
\* Chunk lists a caller may pass to add_chunks (the empty list included).
ChunkLists == {<<>>, <<"a">>, <<"b">>, <<"a", "b">>}
SingleChunks == {<<"a">>, <<"b">>}
Ks == 1..MaxK

\* ------------------------------------------------- embedding and FAISS index

\* SentenceTransformer.encode: a deterministic function of the text. The
\* vectors are abstracted to points of the integer line.
Embed(text) ==
  CASE text = "a" -> 0
    [] text = "b" -> 2
    [] text = "c" -> 3
    [] OTHER -> 7

\* encode(list): one vector per text, in order.
Encode(texts) == [i \in 1..Len(texts) |-> Embed(texts[i])]

\* IndexFlatL2 metric: squared Euclidean distance.
L2(u, v) == (u - v) * (u - v)

\* Row i (0-based) is ranked before row j for query vector qv: smaller
\* distance first, equal distances in row order.
Before(rows, qv, i, j) ==
  \/ L2(rows[i + 1], qv) < L2(rows[j + 1], qv)
  \/ L2(rows[i + 1], qv) = L2(rows[j + 1], qv) /\ i < j

\* Number of rows ranked before row j.
RankOf(rows, qv, j) ==
  Cardinality({i \in 0..(Len(rows) - 1) : Before(rows, qv, i, j)})

\* faiss IndexFlatL2.search(q, fetch_k): the fetch_k nearest rows as
\* (distance, row id) pairs in ascending distance order.
IndexSearch(rows, qv, fetch_k) ==
  [r \in 1..fetch_k |->
     LET j == CHOOSE j \in 0..(Len(rows) - 1) : RankOf(rows, qv, j) = r - 1
     IN  [dist |-> L2(rows[j + 1], qv), idx |-> j]]

Min(x, y) == IF x <= y THEN x ELSE y

\* ------------------------------------------------------------- store state

VARIABLES
  index,       \* _index: the rows of the FAISS index (ntotal = Len(index))
  meta,        \* _meta: parallel list of chunk records
  doc_map,     \* _doc_map: doc_id -> list of positions
  del_count,   \* _del_count
  disk_index,  \* index.bin: whether it exists, and the rows written last
  disk_meta,   \* meta.pkl: whether it exists, and the pickled
               \* (meta, doc_map, del_count)
  ret,         \* the last completed call and what it returned
  gone,        \* history: doc ids deleted with no insert since
  live,        \* history: the add_chunks calls of documents not deleted since
  lock,        \* _lock: "free" or the thread that holds it
  pc,          \* per thread: the line of the method it is about to execute
  frame,       \* per thread: the arguments and locals of its call
  serial,      \* history: the store after the calls so far, run one at a time
               \* in the order in which they took the lock
  ncalls,      \* number of calls started by the threads
  node,        \* the graph node run_rag executes next ("idle" before the run)
  st,          \* the RAGState passed from node to node
  settings,    \* Settings: max_rewrite_attempts, top_k_chunks
  hist,        \* history of the run: passes, rewrites, Completion Port calls
  result       \* what run_rag returned or raised (status "-" while running)

store_vars == <<index, meta, doc_map, del_count>>
disk_vars == <<disk_index, disk_meta>>
hist_vars == <<ret, gone, live>>
thread_vars == <<lock, pc, frame, serial, ncalls>>
pipe_vars == <<node, st, settings, hist, result>>

vars == <<store_vars, disk_vars, hist_vars, thread_vars, pipe_vars>>

\* The in-memory object as one value.
MkStore(ix, mt, dm, dc) ==
  [index |-> ix, meta |-> mt, doc_map |-> dm, del_count |-> dc]

Store == MkStore(index, meta, doc_map, del_count)

\* VectorStore.__init__ before _load: an empty index.
EmptyStore == MkStore(<<>>, <<>>, <<>>, 0)

\* range(start, start + n) as a list.
Range(start, n) == [i \in 1..n |-> start + i - 1]

\* A dict with key d set to value v (other keys kept).
DictSet(dm, d, v) ==
  [x \in (DOMAIN dm) \cup {d} |-> IF x = d THEN v ELSE dm[x]]

\* dict.pop(d, []): the value, and the dict without the key.
DictGet(dm, d) == IF d \in DOMAIN dm THEN dm[d] ELSE <<>>
DictDel(dm, d) == [x \in (DOMAIN dm) \ {d} |-> dm[x]]

\* Python's None in a slot of _meta.
None == [is_none |-> TRUE]

\* Truthiness of a slot of _meta: a chunk record is a non-empty dict.
IsSome(m) == m # None

\* The record add_chunks writes for chunk i (0-based) of a call.
ChunkRecordOneBased(doc_id, doc_name, i, chunk) ==
  [doc_id |-> doc_id, doc_name |-> doc_name, chunk_index |-> i + 1,
   text |-> chunk, deleted |-> FALSE]
ChunkRecord(doc_id, doc_name, i, chunk) ==
  [doc_id |-> doc_id, doc_name |-> doc_name, chunk_index |-> i,
   text |-> chunk, deleted |-> FALSE]

Max(x, y) == IF x >= y THEN x ELSE y

\* add_chunks, lines 78-88: _meta padded with None up to start + n, then the
\* slots at the new positions overwritten with the chunk records.
FillMeta(mt, start, doc_id, doc_name, chunks) ==
  [p \in 1..Max(Len(mt), start + Len(chunks)) |->
     IF p - 1 >= start /\ p - 1 < start + Len(chunks)
       THEN ChunkRecord(doc_id, doc_name, p - 1 - start, chunks[p - start])
       ELSE IF p <= Len(mt) THEN mt[p] ELSE None]

\* add_chunks, line 76: the positions recorded for the document.
RecordPositions(dm, doc_id, positions) == DictSet(dm, doc_id, positions)

\* add_chunks, lines 72-88: the store after appending the chunks.
AddChunksStore(s, doc_id, doc_name, chunks) ==
  LET start == Len(s.index)
      positions == Range(start, Len(chunks))
  IN  MkStore(s.index \o Encode(chunks),
              FillMeta(s.meta, start, doc_id, doc_name, chunks),
              RecordPositions(s.doc_map, doc_id, positions),
              s.del_count)

\* delete_doc, line 105: the positions of the popped list that get marked.
Marked(s, positions) ==
  {i \in 1..Len(positions) :
     positions[i] < Len(s.meta) /\ IsSome(s.meta[positions[i] + 1])}

\* Mutant of CountDeleted: the counter bumped once per call, not per record.
CountDeletedOnce(dc, n) == dc + (IF n > 0 THEN 1 ELSE 0)

\* delete_doc, line 107: the counter after the loop.
CountDeleted(dc, n) == dc + n

\* delete_doc, lines 104-107: soft delete of the document's positions.
DeleteDocStore(s, doc_id) ==
  LET positions == DictGet(s.doc_map, doc_id)
      hit == Marked(s, positions)
      hitpos == {positions[i] : i \in hit}
  IN  MkStore(s.index,
              [p \in 1..Len(s.meta) |->
                 IF p - 1 \in hitpos THEN [s.meta[p] EXCEPT !.deleted = TRUE]
                                     ELSE s.meta[p]],
              DictDel(s.doc_map, doc_id),
              CountDeleted(s.del_count, Cardinality(hit)))

\* rebuild_index, line 124: the records that are present and not deleted.
IsAlive(m) == IsSome(m) /\ ~m.deleted
Alive(mt) == SelectSeq(mt, IsAlive)

\* rebuild_index, lines 140-142: doc_id -> positions in the alive list.
RebuildDocMap(alive) ==
  [d \in {alive[p].doc_id : p \in 1..Len(alive)} |->
     LET idx == SelectSeq([p \in 1..Len(alive) |-> p], LAMBDA p : alive[p].doc_id = d)
     IN  [i \in 1..Len(idx) |-> idx[i] - 1]]

\* Mutant of RebuildStore: the old FAISS index kept instead of a new one.
RebuildStoreKeepsIndex(s) ==
  LET alive == Alive(s.meta)
  IN  IF alive = <<>>
        THEN EmptyStore
        ELSE MkStore(s.index, alive, RebuildDocMap(alive), 0)

\* rebuild_index, lines 124-143: the store rebuilt from the alive records.
RebuildStore(s) ==
  LET alive == Alive(s.meta)
  IN  IF alive = <<>>
        THEN EmptyStore
        ELSE MkStore(Encode([p \in 1..Len(alive) |-> alive[p].text]),
                     alive, RebuildDocMap(alive), 0)

\* search, line 178: {**m, "score": float(dist)}.
WithScore(m, dist) ==
  [doc_id |-> m.doc_id, doc_name |-> m.doc_name, chunk_index |-> m.chunk_index,
   text |-> m.text, deleted |-> m.deleted, score |-> dist]

\* Mutant of FetchK: a 3x over-fetch.
FetchKTriple(s, k) == Min(k * 3, Len(s.index))

\* Mutant of FetchK: the 4x over-fetch forgotten.
FetchKExact(s, k) == Min(k, Len(s.index))

\* search, line 168.
FetchK(s, k) == Min(k * 4, Len(s.index))

\* search, lines 172-180: the walk over the (distance, idx) pairs from pair i.
RECURSIVE Walk(_, _, _, _, _)
Walk(s, hits, i, k, results) ==
  IF i > Len(hits) THEN results
  ELSE LET h == hits[i] IN
    IF h.idx < 0 \/ h.idx >= Len(s.meta) THEN Walk(s, hits, i + 1, k, results)
    ELSE LET m == s.meta[h.idx + 1] IN
      IF ~IsSome(m) \/ m.deleted THEN Walk(s, hits, i + 1, k, results)
      ELSE LET more == Append(results, WithScore(m, h.dist)) IN
        IF Len(more) >= k THEN more ELSE Walk(s, hits, i + 1, k, more)

\* search, lines 162-182.
SearchStore(s, query, k) ==
  IF Len(s.index) = 0 THEN <<>>
  ELSE Walk(s, IndexSearch(s.index, Embed(query), FetchK(s, k)), 1, k, <<>>)

\* A file that does not exist. (readable: reading the file back raises no
\* exception.)
MissingIndex == [present |-> FALSE, readable |-> FALSE, rows |-> <<>>]
MissingMeta ==
  [present |-> FALSE, readable |-> FALSE, meta |-> <<>>, doc_map |-> <<>>,
   del_count |-> 0]

\* _save, lines 205-207: what each file holds after a save of store s.
SavedIndex(s) == [present |-> TRUE, readable |-> TRUE, rows |-> s.index]
SavedMetaNoCount(s) ==
  [present |-> TRUE, readable |-> TRUE, meta |-> s.meta, doc_map |-> s.doc_map,
   del_count |-> 0]
SavedMeta(s) ==
  [present |-> TRUE, readable |-> TRUE, meta |-> s.meta, doc_map |-> s.doc_map,
   del_count |-> s.del_count]

\* _load, lines 216-222, on a store that __init__ left as `fresh`: nothing is
\* read unless both files exist; read_index replaces the index before
\* pickle.load is tried, and an exception of either leaves what was assigned
\* until then.
LoadStore(fresh, di, dm) ==
  IF ~(di.present /\ dm.present) THEN fresh
  ELSE IF ~di.readable THEN fresh
  ELSE IF ~dm.readable THEN [fresh EXCEPT !.index = di.rows]
  ELSE MkStore(di.rows, dm.meta, dm.doc_map, dm.del_count)

\* ------------------------------------------------------- history variables

RECURSIVE DropDoc(_, _)
\* The calls of `calls` that are not for doc_id.
DropDoc(calls, doc_id) ==
  IF calls = <<>> THEN <<>>
  ELSE IF Head(calls).doc_id = doc_id THEN DropDoc(Tail(calls), doc_id)
  ELSE <<Head(calls)>> \o DropDoc(Tail(calls), doc_id)

\* What a call returned: op is the method; the other fields hold its
\* arguments and its return value (count or results).
Ret(op, doc, q, k, count, results) ==
  [op |-> op, doc |-> doc, q |-> q, k |-> k, count |-> count, results |-> results]

\* ------------------------------------------- sequential calls on the store

\* Settings defaults (app/core/config.py).
max_rewrite_attempts == 2
top_k_chunks == 5

\* run_rag, lines 260-269: the initial RAGState.
InitialState(query) ==
  [query |-> query, rewritten_query |-> "", retrieved_chunks |-> <<>>,
   relevant_chunks |-> <<>>, answer |-> "", sources |-> {},
   rewrite_count |-> 0, needs_rewrite |-> FALSE]

\* run_rag has not returned; run_rag raised.
NoResult ==
  [status |-> "-", answer |-> "", sources |-> {}, rewritten_query |-> "",
   chunk_count |-> 0]
ErrorResult == [NoResult EXCEPT !.status = "error"]

\* History of a run: executions of retrieve and rewrite_query, Completion Port
\* invocations, what the port did in the last grade_chunks ("-" when it was not
\* asked), whether every grading so far kept nothing, the query last searched,
\* the chunks node_generate built its context from, what the port did in the
\* last rewrite_query and in generate ("-" when it was not asked, "raise" or
\* "reply").
NoHistory ==
  [retrieves |-> 0, rewrites |-> 0, llm_calls |-> 0, grade_resp |-> "-",
   all_none |-> TRUE, searched |-> "-", used |-> <<>>, rewrite_resp |-> "-",
   gen_resp |-> "-"]

\* No thread is inside a method.
Threads == {"t1", "t2"}
IdleFrame ==
  [op |-> "-", doc |-> "-", name |-> "-", chunks |-> <<>>, q |-> "-", k |-> 0,
   start |-> 0, alive |-> <<>>, hits |-> <<>>, count |-> 0, results |-> <<>>]
ThreadsIdle ==
  /\ lock = "free"
  /\ pc = [t \in Threads |-> "idle"]
  /\ frame = [t \in Threads |-> IdleFrame]
  /\ serial = EmptyStore
  /\ ncalls = 0

\* No pipeline run has started; the default settings are in force.
PipeIdle ==
  /\ node = "idle"
  /\ st = InitialState("-")
  /\ settings = [max_rewrite_attempts |-> max_rewrite_attempts, top_k_chunks |-> top_k_chunks]
  /\ hist = NoHistory
  /\ result = NoResult

Init ==
  /\ ThreadsIdle
  /\ PipeIdle
  /\ index = <<>>
  /\ meta = <<>>
  /\ doc_map = <<>>
  /\ del_count = 0
  /\ disk_index = MissingIndex
  /\ disk_meta = MissingMeta
  /\ ret = Ret("init", "-", "-", 0, 0, <<>>)
  /\ gone = {}
  /\ live = <<>>

\* The store variables take the value s and are saved (_save).
SetAndSave(s) ==
  /\ index' = s.index
  /\ meta' = s.meta
  /\ doc_map' = s.doc_map
  /\ del_count' = s.del_count
  /\ disk_index' = SavedIndex(s)
  /\ disk_meta' = SavedMeta(s)

\* VectorStore.add_chunks(doc_id, doc_name, chunks)
add_chunks(doc_id, doc_name, chunks) ==
  /\ UNCHANGED <<thread_vars, pipe_vars>>
  /\ IF chunks = <<>>
       THEN /\ ret' = Ret("add_chunks", doc_id, "-", 0, 0, <<>>)
            /\ UNCHANGED <<store_vars, disk_vars, gone, live>>
       ELSE /\ SetAndSave(AddChunksStore(Store, doc_id, doc_name, chunks))
            /\ ret' = Ret("add_chunks", doc_id, "-", 0, Len(chunks), <<>>)
            /\ gone' = gone \ {doc_id}
            /\ live' = Append(live, [doc_id |-> doc_id, doc_name |-> doc_name,
                                     chunks |-> chunks])

\* VectorStore.delete_doc(doc_id)
delete_doc(doc_id) ==
  /\ UNCHANGED <<thread_vars, pipe_vars>>
  /\ SetAndSave(DeleteDocStore(Store, doc_id))
  /\ ret' = Ret("delete_doc", doc_id, "-", 0, 0, <<>>)
  /\ gone' = gone \cup {doc_id}
  /\ live' = DropDoc(live, doc_id)

\* VectorStore.rebuild_index()
rebuild_index ==
  /\ SetAndSave(RebuildStore(Store))
  /\ ret' = Ret("rebuild_index", "-", "-", 0, Len(RebuildStore(Store).index), <<>>)
  /\ UNCHANGED <<gone, live, thread_vars, pipe_vars>>

\* VectorStore.search(query, k)
search(query, k) ==
  /\ ret' = Ret("search", "-", query, k, 0, SearchStore(Store, query, k))
  /\ UNCHANGED <<store_vars, disk_vars, gone, live, thread_vars, pipe_vars>>

\* VectorStore(store_dir, model_name), lines 33-49: the process restarts and
\* builds a new instance on the same directory.
VectorStore ==
  /\ LET s == LoadStore(EmptyStore, disk_index, disk_meta)
     IN  /\ index' = s.index
         /\ meta' = s.meta
         /\ doc_map' = s.doc_map
         /\ del_count' = s.del_count
  /\ ret' = Ret("VectorStore", "-", "-", 0, 0, <<>>)
  /\ UNCHANGED <<disk_vars, gone, live, thread_vars, pipe_vars>>

\* The store at the moment a method calls self._model.encode: add_chunks at
\* line 69 (before the lock), rebuild_index at line 134 and search at line
\* 166 have assigned nothing yet.
AtEncodeIndexReset(op, s) == IF op = "rebuild_index" THEN [s EXCEPT !.index = <<>>] ELSE s
AtEncode(op, s) == s

\* The Embedding Port raises inside method op: the exception leaves the
\* method (and its `with` block) at the encode call; _save is not reached.
encode_raises(op) ==
  /\ LET s == AtEncode(op, Store)
     IN  /\ index' = s.index
         /\ meta' = s.meta
         /\ doc_map' = s.doc_map
         /\ del_count' = s.del_count
  /\ ret' = Ret("raise", "-", op, 0, 0, <<>>)
  /\ UNCHANGED <<disk_vars, gone, live, thread_vars, pipe_vars>>

\* add_chunks with at least one chunk, lines 69-70.
add_chunks_raises == encode_raises("add_chunks")

\* rebuild_index with a record alive, lines 133-135.
rebuild_index_raises == Alive(meta) # <<>> /\ encode_raises("rebuild_index")

\* search on an index with rows, lines 166-167.
search_raises == Len(index) # 0 /\ encode_raises("search")

Next ==
  \/ \E d \in DocIds, n \in DocNames, c \in ChunkLists :
       Len(index) + Len(c) <= MaxRows /\ add_chunks(d, n, c)
  \/ add_chunks_raises
  \/ rebuild_index_raises
  \/ search_raises
  \/ \E d \in DocIds : delete_doc(d)
  \/ rebuild_index
  \/ \E q \in Queries, k \in Ks : search(q, k)
  \/ VectorStore

Spec == Init /\ [][Next]_vars

\* One document id, filled one chunk at a time up to MaxSingleRows rows: deep
\* enough for search to fetch fewer rows than the index holds.
NextSingle ==
  \/ \E c \in SingleChunks :
       Len(index) + Len(c) <= MaxSingleRows /\ add_chunks("d1", "f1", c)
  \/ delete_doc("d1")
  \/ rebuild_index
  \/ \E q \in Queries, k \in Ks : search(q, k)

SpecSingle == Init /\ [][NextSingle]_vars

\* --------------------------------------- damaged files and a stopped process

\* Largest number of rows when files are damaged or the process stops.
MaxCrashRows == 2

\* A file that exists and cannot be read back: cut short by a write that did
\* not finish, or damaged on the disk.
UnreadableIndex == [present |-> TRUE, readable |-> FALSE, rows |-> <<>>]
UnreadableMeta ==
  [present |-> TRUE, readable |-> FALSE, meta |-> <<>>, doc_map |-> <<>>,
   del_count |-> 0]

\* The process is running: it did not stop inside an operation.
Running == ret.op # "stopped"

\* The directory is damaged from outside: a file is removed or made
\* unreadable (the conditions _load tests at lines 216-221).
damage ==
  /\ \E di \in {disk_index, MissingIndex, UnreadableIndex},
        dm \in {disk_meta, MissingMeta, UnreadableMeta} :
       /\ <<di, dm>> # <<disk_index, disk_meta>>
       /\ disk_index' = di
       /\ disk_meta' = dm
  /\ ret' = Ret("damage", "-", "-", 0, 0, <<>>)
  /\ UNCHANGED <<store_vars, gone, live, thread_vars, pipe_vars>>

\* Room for one more insert: the rows and the history of inserts stay within
\* MaxCrashRows (a restart on damaged files empties the index, not the history).
CrashRoom(c) ==
  /\ Len(index) + Len(c) <= MaxCrashRows
  /\ Len(live) < MaxCrashRows

NextDamage ==
  \/ \E d \in DocIds, c \in SingleChunks : CrashRoom(c) /\ add_chunks(d, "f1", c)
  \/ \E d \in DocIds : delete_doc(d)
  \/ rebuild_index
  \/ damage
  \/ VectorStore

SpecDamage == Init /\ [][NextDamage]_vars

\* Where the process may stop inside _save: before line 205, inside
\* write_index, between lines 205 and 206, inside pickle.dump.
StopPoints == {"204", "205", "206", "207"}

\* _save of store s, lines 205-207, stopped at `point`: the two files left
\* behind when the files were di and dm before. write_index and open(.., "wb")
\* overwrite the file in place.
StoppedSave(point, s, di, dm) ==
  CASE point = "204" -> <<di, dm>>
    [] point = "205" -> <<UnreadableIndex, dm>>
    [] point = "206" -> <<SavedIndex(s), dm>>
    [] point = "207" -> <<SavedIndex(s), UnreadableMeta>>

\* The process stops at `point` of the _save that ends a mutating call which
\* has brought the store to s.
Stop(s, point) ==
  /\ index' = s.index
  /\ meta' = s.meta
  /\ doc_map' = s.doc_map
  /\ del_count' = s.del_count
  /\ disk_index' = StoppedSave(point, s, disk_index, disk_meta)[1]
  /\ disk_meta' = StoppedSave(point, s, disk_index, disk_meta)[2]
  /\ ret' = Ret("stopped", "-", point, 0, 0, <<>>)
  /\ UNCHANGED <<gone, live, thread_vars, pipe_vars>>

add_chunks_stops(doc_id, doc_name, chunks, point) ==
  /\ chunks # <<>>
  /\ Stop(AddChunksStore(Store, doc_id, doc_name, chunks), point)

delete_doc_stops(doc_id, point) == Stop(DeleteDocStore(Store, doc_id), point)

rebuild_index_stops(point) == Stop(RebuildStore(Store), point)

\* Room for one more delete: a store loaded from files of two different saves
\* lets delete_doc count a record again, so the counter is capped.
DeleteRoom == del_count < MaxCrashRows

NextCrash ==
  \/ \E c \in SingleChunks : Running /\ CrashRoom(c) /\ add_chunks("d1", "f1", c)
  \/ Running /\ DeleteRoom /\ delete_doc("d1")
  \/ Running /\ rebuild_index
  \/ \E c \in SingleChunks, point \in StopPoints :
       Running /\ CrashRoom(c) /\ add_chunks_stops("d1", "f1", c, point)
  \/ \E point \in StopPoints : Running /\ DeleteRoom /\ delete_doc_stops("d1", point)
  \/ \E point \in StopPoints : Running /\ rebuild_index_stops(point)
  \/ VectorStore

SpecCrash == Init /\ [][NextCrash]_vars

\* ------------------------------------------- threads calling one VectorStore
\* Each method runs line by line; pc[t] names the line thread t executes next.
\* The calls come from the thread pool (run_in_executor) and the routers.

\* Largest number of calls the threads start.
MaxCalls == 4

ThreadDocs == DocIds
ThreadChunks == {<<"a", "b">>}
ThreadQueries == {"a"}
ThreadKs == {1}

\* Mutant of CanAcquire: the method body entered without waiting for the lock.
CanAcquireAlways(t) == TRUE

\* `with self._lock`: thread t may enter when no thread holds the lock.
CanAcquire(t) == lock = "free"

Goto(t, label) == pc' = [pc EXCEPT ![t] = label]

\* A thread starts a call: the arguments are bound, and add_chunks runs its
\* lines 66-70 (empty input returns 0; encode happens before the lock).
Call(t) ==
  /\ pc[t] = "idle"
  /\ ncalls < MaxCalls
  /\ ncalls' = ncalls + 1
  /\ \/ \E d \in ThreadDocs, n \in DocNames, c \in ThreadChunks \cup {<<>>} :
          /\ frame' = [frame EXCEPT ![t] =
                         [IdleFrame EXCEPT !.op = "add_chunks", !.doc = d,
                                           !.name = n, !.chunks = c]]
          /\ Goto(t, IF c = <<>> THEN "idle" ELSE "add_72")
     \/ \E d \in ThreadDocs :
          /\ frame' = [frame EXCEPT ![t] =
                         [IdleFrame EXCEPT !.op = "delete_doc", !.doc = d]]
          /\ Goto(t, "del_103")
     \/ /\ frame' = [frame EXCEPT ![t] = [IdleFrame EXCEPT !.op = "rebuild_index"]]
        /\ Goto(t, "rb_123")
     \/ \E q \in ThreadQueries, k \in ThreadKs :
          /\ frame' = [frame EXCEPT ![t] =
                         [IdleFrame EXCEPT !.op = "search", !.q = q, !.k = k]]
          /\ Goto(t, "s_162")
  /\ UNCHANGED <<store_vars, disk_vars, hist_vars, lock, serial>>
  /\ UNCHANGED pipe_vars

\* The store a call produces when it runs alone on store s.
Effect(f, s) ==
  CASE f.op = "add_chunks" -> AddChunksStore(s, f.doc, f.name, f.chunks)
    [] f.op = "delete_doc" -> DeleteDocStore(s, f.doc)
    [] f.op = "rebuild_index" -> RebuildStore(s)
    [] OTHER -> s

\* Lines 72, 103, 123, 162: `with self._lock`.
Acquire(t) ==
  /\ pc[t] \in {"add_72", "del_103", "rb_123", "s_162"}
  /\ CanAcquire(t)
  /\ lock' = t
  /\ serial' = Effect(frame[t], serial)
  /\ Goto(t, CASE pc[t] = "add_72" -> "add_73"
               [] pc[t] = "del_103" -> "del_104"
               [] pc[t] = "rb_123" -> "rb_124"
               [] pc[t] = "s_162" -> "s_163")
  /\ UNCHANGED <<store_vars, disk_vars, hist_vars, frame, ncalls>>
  /\ UNCHANGED pipe_vars

\* add_chunks, lines 73-74: start = ntotal; the embeddings are added.
add_chunks_73(t) ==
  /\ pc[t] = "add_73"
  /\ frame' = [frame EXCEPT ![t].start = Len(index)]
  /\ index' = index \o Encode(frame[t].chunks)
  /\ Goto(t, "add_75")
  /\ UNCHANGED <<meta, doc_map, del_count, disk_vars, hist_vars, lock, serial, ncalls>>
  /\ UNCHANGED pipe_vars

\* add_chunks, lines 75-76: the positions are recorded for the document.
add_chunks_75(t) ==
  /\ pc[t] = "add_75"
  /\ doc_map' = RecordPositions(doc_map, frame[t].doc,
                                Range(frame[t].start, Len(frame[t].chunks)))
  /\ Goto(t, "add_78")
  /\ UNCHANGED <<index, meta, del_count, disk_vars, hist_vars, lock, frame, serial, ncalls>>
  /\ UNCHANGED pipe_vars

\* add_chunks, lines 78-88: _meta is padded and the records are written.
add_chunks_78(t) ==
  /\ pc[t] = "add_78"
  /\ meta' = FillMeta(meta, frame[t].start, frame[t].doc, frame[t].name, frame[t].chunks)
  /\ frame' = [frame EXCEPT ![t].count = Len(frame[t].chunks)]
  /\ Goto(t, "save_205")
  /\ UNCHANGED <<index, doc_map, del_count, disk_vars, hist_vars, lock, serial, ncalls>>
  /\ UNCHANGED pipe_vars

\* delete_doc, lines 104-107: the loop over the popped positions.
delete_doc_104(t) ==
  /\ pc[t] = "del_104"
  /\ LET s == DeleteDocStore(Store, frame[t].doc)
     IN  /\ meta' = s.meta
         /\ doc_map' = s.doc_map
         /\ del_count' = s.del_count
  /\ Goto(t, "save_205")
  /\ UNCHANGED <<index, disk_vars, hist_vars, lock, frame, serial, ncalls>>
  /\ UNCHANGED pipe_vars

\* rebuild_index, lines 124-125: the alive list, and the branch on it.
rebuild_index_124(t) ==
  /\ pc[t] = "rb_124"
  /\ frame' = [frame EXCEPT ![t].alive = Alive(meta)]
  /\ Goto(t, IF Alive(meta) = <<>> THEN "rb_126" ELSE "rb_137")
  /\ UNCHANGED <<store_vars, disk_vars, hist_vars, lock, serial, ncalls>>
  /\ UNCHANGED pipe_vars

\* rebuild_index, line 126 (nothing alive) and lines 133-138 (re-embed): a
\* new index replaces the old one.
rebuild_index_137(t) ==
  /\ pc[t] \in {"rb_126", "rb_137"}
  /\ index' = Encode([p \in 1..Len(frame[t].alive) |-> frame[t].alive[p].text])
  /\ Goto(t, "rb_139")
  /\ UNCHANGED <<meta, doc_map, del_count, disk_vars, hist_vars, lock, frame, serial, ncalls>>
  /\ UNCHANGED pipe_vars

\* rebuild_index, lines 127 and 139: _meta = alive.
rebuild_index_139(t) ==
  /\ pc[t] = "rb_139"
  /\ meta' = frame[t].alive
  /\ Goto(t, "rb_140")
  /\ UNCHANGED <<index, doc_map, del_count, disk_vars, hist_vars, lock, frame, serial, ncalls>>
  /\ UNCHANGED pipe_vars

\* rebuild_index, lines 128 and 140-142: _doc_map rebuilt.
rebuild_index_140(t) ==
  /\ pc[t] = "rb_140"
  /\ doc_map' = RebuildDocMap(frame[t].alive)
  /\ Goto(t, "rb_143")
  /\ UNCHANGED <<index, meta, del_count, disk_vars, hist_vars, lock, frame, serial, ncalls>>
  /\ UNCHANGED pipe_vars

\* rebuild_index, lines 129 and 143: _del_count = 0.
rebuild_index_143(t) ==
  /\ pc[t] = "rb_143"
  /\ del_count' = 0
  /\ Goto(t, "save_205")
  /\ UNCHANGED <<index, meta, doc_map, disk_vars, hist_vars, lock, frame, serial, ncalls>>
  /\ UNCHANGED pipe_vars

\* _save, line 205: index.bin is written.
save_205(t) ==
  /\ pc[t] = "save_205"
  /\ disk_index' = SavedIndex(Store)
  /\ Goto(t, "save_206")
  /\ UNCHANGED <<store_vars, disk_meta, hist_vars, lock, frame, serial, ncalls>>
  /\ UNCHANGED pipe_vars

\* _save, lines 206-207: meta.pkl is written.
save_206(t) ==
  /\ pc[t] = "save_206"
  /\ disk_meta' = SavedMeta(Store)
  /\ Goto(t, "release")
  /\ UNCHANGED <<store_vars, disk_index, hist_vars, lock, frame, serial, ncalls>>
  /\ UNCHANGED pipe_vars

\* search, lines 163-169: empty index returns []; else the FAISS search.
search_163(t) ==
  /\ pc[t] = "s_163"
  /\ IF Len(index) = 0
       THEN /\ frame' = [frame EXCEPT ![t].results = <<>>]
            /\ Goto(t, "release")
       ELSE /\ frame' = [frame EXCEPT ![t].hits =
                           IndexSearch(index, Embed(frame[t].q), FetchK(Store, frame[t].k))]
            /\ Goto(t, "s_172")
  /\ UNCHANGED <<store_vars, disk_vars, hist_vars, lock, serial, ncalls>>
  /\ UNCHANGED pipe_vars

\* search, lines 171-180: the walk over the hits, reading _meta.
search_172(t) ==
  /\ pc[t] = "s_172"
  /\ frame' = [frame EXCEPT ![t].results = Walk(Store, frame[t].hits, 1, frame[t].k, <<>>)]
  /\ Goto(t, "release")
  /\ UNCHANGED <<store_vars, disk_vars, hist_vars, lock, serial, ncalls>>
  /\ UNCHANGED pipe_vars

\* The end of the `with` block: the lock is released. add_chunks,
\* delete_doc, search and the empty branch of rebuild_index (line 131) return
\* here; rebuild_index goes on to line 146.
Release(t) ==
  /\ pc[t] = "release"
  /\ lock' = "free"
  /\ Goto(t, IF frame[t].op = "rebuild_index" /\ frame[t].alive # <<>>
               THEN "rb_146" ELSE "idle")
  /\ UNCHANGED <<store_vars, disk_vars, hist_vars, frame, serial, ncalls>>
  /\ UNCHANGED pipe_vars

\* rebuild_index, line 146: return self._index.ntotal, read after the lock
\* has been released.
rebuild_index_146(t) ==
  /\ pc[t] = "rb_146"
  /\ frame' = [frame EXCEPT ![t].count = Len(index)]
  /\ Goto(t, "idle")
  /\ UNCHANGED <<store_vars, disk_vars, hist_vars, lock, serial, ncalls>>
  /\ UNCHANGED pipe_vars

NextThreads ==
  \E t \in Threads :
    \/ Call(t)
    \/ Acquire(t)
    \/ add_chunks_73(t)
    \/ add_chunks_75(t)
    \/ add_chunks_78(t)
    \/ delete_doc_104(t)
    \/ rebuild_index_124(t)
    \/ rebuild_index_137(t)
    \/ rebuild_index_139(t)
    \/ rebuild_index_140(t)
    \/ rebuild_index_143(t)
    \/ save_205(t)
    \/ save_206(t)
    \/ search_163(t)
    \/ search_172(t)
    \/ Release(t)
    \/ rebuild_index_146(t)

SpecThreads == Init /\ [][NextThreads]_vars

\* The properties has_documents, total_vectors and active_vectors, called by
\* the routers and by the health check while other threads run the methods.
\* None of them takes the lock.
CallReader(t) ==
  /\ pc[t] = "idle"
  /\ ncalls < MaxCalls
  /\ ncalls' = ncalls + 1
  /\ \E op \in {"has_documents", "total_vectors", "active_vectors"} :
       /\ frame' = [frame EXCEPT ![t] = [IdleFrame EXCEPT !.op = op]]
       /\ Goto(t, CASE op = "has_documents" -> "hd_187"
                    [] op = "total_vectors" -> "tv_191"
                    [] op = "active_vectors" -> "av_195")
  /\ UNCHANGED <<store_vars, disk_vars, hist_vars, lock, serial>>
  /\ UNCHANGED pipe_vars

\* has_documents, line 187: bool(self._doc_map), as 1 or 0.
has_documents_187(t) ==
  /\ pc[t] = "hd_187"
  /\ frame' = [frame EXCEPT ![t].count = IF DOMAIN doc_map # {} THEN 1 ELSE 0]
  /\ Goto(t, "idle")
  /\ UNCHANGED <<store_vars, disk_vars, hist_vars, lock, serial, ncalls>>
  /\ UNCHANGED pipe_vars

\* total_vectors, line 191: self._index.ntotal.
total_vectors_191(t) ==
  /\ pc[t] = "tv_191"
  /\ frame' = [frame EXCEPT ![t].count = Len(index)]
  /\ Goto(t, "idle")
  /\ UNCHANGED <<store_vars, disk_vars, hist_vars, lock, serial, ncalls>>
  /\ UNCHANGED pipe_vars

\* active_vectors, line 195: self._index.ntotal is read first ...
active_vectors_195(t) ==
  /\ pc[t] = "av_195"
  /\ frame' = [frame EXCEPT ![t].start = Len(index)]
  /\ Goto(t, "av_195_sub")
  /\ UNCHANGED <<store_vars, disk_vars, hist_vars, lock, serial, ncalls>>
  /\ UNCHANGED pipe_vars

\* ... then self._del_count, and the difference is returned.
active_vectors_195_sub(t) ==
  /\ pc[t] = "av_195_sub"
  /\ frame' = [frame EXCEPT ![t].count = frame[t].start - del_count]
  /\ Goto(t, "idle")
  /\ UNCHANGED <<store_vars, disk_vars, hist_vars, lock, serial, ncalls>>
  /\ UNCHANGED pipe_vars

NextReaders ==
  \/ NextThreads
  \/ \E t \in Threads :
       \/ CallReader(t)
       \/ has_documents_187(t)
       \/ total_vectors_191(t)
       \/ active_vectors_195(t)
       \/ active_vectors_195_sub(t)

SpecReaders == Init /\ [][NextReaders]_vars

\* ------------------------------------ upload, background indexing, deletion
\* Each thread of control makes one request: an upload, whose background task
\* process_document hands load_document, chunk_text and add_chunks to the
\* thread pool one after the other, or a DELETE /documents/{doc_id}. The
\* store methods run under the lock, so each is one step here.

\* Chunk lists chunk_text may produce for an uploaded file (none: ValueError).
UploadChunks == {<<>>, <<"a">>, <<"a", "b">>}

\* The upload route has created document d (each upload draws a fresh uuid).
Uploaded(d) ==
  \E t \in Threads : frame[t].op = "process_document" /\ frame[t].doc = d

\* The delete route has removed the uploaded file of d (line 133), and the
\* row of d in the database (line 135).
Unlinked(d) ==
  \E t \in Threads :
    frame[t].op = "delete_doc_route" /\ frame[t].doc = d /\ frame[t].count = 200

\* POST /documents/upload, lines 62-78: the document is created and
\* process_document is queued.
upload_document(t, d, c) ==
  /\ pc[t] = "idle"
  /\ frame[t].op = "-"
  /\ ~Uploaded(d)
  /\ frame' = [frame EXCEPT ![t] =
                 [IdleFrame EXCEPT !.op = "process_document", !.doc = d,
                                   !.name = "f1", !.chunks = c]]
  /\ Goto(t, "pd_46")
  /\ UNCHANGED <<store_vars, disk_vars, hist_vars, lock, serial, ncalls, pipe_vars>>

\* process_document, lines 46-48: load_document; it raises when the file has
\* been removed, and the task ends at line 67 with status "error" (-1).
process_document_46(t) ==
  /\ pc[t] = "pd_46"
  /\ IF Unlinked(frame[t].doc)
       THEN /\ frame' = [frame EXCEPT ![t].count = -1]
            /\ Goto(t, "idle")
       ELSE /\ Goto(t, "pd_51")
            /\ UNCHANGED frame
  /\ UNCHANGED <<store_vars, disk_vars, hist_vars, lock, serial, ncalls, pipe_vars>>

\* process_document, lines 51-53: chunk_text; no chunk raises ValueError.
process_document_51(t) ==
  /\ pc[t] = "pd_51"
  /\ IF frame[t].chunks = <<>>
       THEN /\ frame' = [frame EXCEPT ![t].count = -1]
            /\ Goto(t, "idle")
       ELSE /\ Goto(t, "pd_56")
            /\ UNCHANGED frame
  /\ UNCHANGED <<store_vars, disk_vars, hist_vars, lock, serial, ncalls, pipe_vars>>

\* process_document, lines 56-59: vector_store.add_chunks(doc_id, filename,
\* chunks).
process_document_56(t) ==
  /\ pc[t] = "pd_56"
  /\ SetAndSave(AddChunksStore(Store, frame[t].doc, frame[t].name, frame[t].chunks))
  /\ frame' = [frame EXCEPT ![t].count = Len(frame[t].chunks)]
  /\ Goto(t, "pd_62")
  /\ UNCHANGED <<hist_vars, lock, serial, ncalls, pipe_vars>>

\* process_document, line 62: the status becomes "indexed"; the task is over.
process_document_62(t) ==
  /\ pc[t] = "pd_62"
  /\ Goto(t, "idle")
  /\ UNCHANGED <<store_vars, disk_vars, hist_vars, lock, frame, serial, ncalls, pipe_vars>>

\* DELETE /documents/{doc_id}, lines 125-127: 404 unless the document exists.
delete_doc_route(t, d) ==
  /\ pc[t] = "idle"
  /\ frame[t].op = "-"
  /\ frame' = [frame EXCEPT ![t] =
                 [IdleFrame EXCEPT !.op = "delete_doc_route", !.doc = d,
                    !.count = IF Uploaded(d) /\ ~Unlinked(d) THEN 0 ELSE 404]]
  /\ Goto(t, IF Uploaded(d) /\ ~Unlinked(d) THEN "dr_129" ELSE "idle")
  /\ UNCHANGED <<store_vars, disk_vars, hist_vars, lock, serial, ncalls, pipe_vars>>

\* The delete route, line 129: vector_store.delete_doc(doc_id).
delete_doc_route_129(t) ==
  /\ pc[t] = "dr_129"
  /\ SetAndSave(DeleteDocStore(Store, frame[t].doc))
  /\ Goto(t, "dr_133")
  /\ UNCHANGED <<hist_vars, lock, frame, serial, ncalls, pipe_vars>>

\* The delete route, lines 131-136: the file and the database row are
\* removed; the request is answered (200).
delete_doc_route_133(t) ==
  /\ pc[t] = "dr_133"
  /\ frame' = [frame EXCEPT ![t].count = 200]
  /\ Goto(t, "idle")
  /\ UNCHANGED <<store_vars, disk_vars, hist_vars, lock, serial, ncalls, pipe_vars>>

NextIndexing ==
  \/ \E t \in Threads, d \in DocIds, c \in UploadChunks : upload_document(t, d, c)
  \/ \E t \in Threads :
       \/ process_document_46(t)
       \/ process_document_51(t)
       \/ process_document_56(t)
       \/ process_document_62(t)
  \/ \E t \in Threads, d \in DocIds : delete_doc_route(t, d)
  \/ \E t \in Threads : delete_doc_route_129(t) \/ delete_doc_route_133(t)
  \/ \E q \in Queries, k \in Ks : search(q, k)

SpecIndexing == Init /\ [][NextIndexing]_vars

\* ------------------------------------------------------ the RAG pipeline
\* run_rag builds the graph and invokes it; the nodes run one after another.

\* Largest max_rewrite_attempts a deployment is configured with.
MaxM == 3

PipeQueries == {"a", "c"}
TopKs == {1, top_k_chunks}

\* Stores a run may start on: empty; one document; that document deleted;
\* two documents with the same file name.
StoreOne == AddChunksStore(EmptyStore, "d1", "f1", <<"a", "b">>)
StoreFamily ==
  {EmptyStore, StoreOne, DeleteDocStore(StoreOne, "d1"),
   AddChunksStore(StoreOne, "d2", "f1", <<"b">>)}

\* Tokens of a grading reply after strip().lower().split(","): a token is
\* digits (isdigit() holds) or not; int() of a digit token yields val, or
\* raises ValueError (int_ok false: a digit character such as a superscript).
Digits(n) == [digit |-> TRUE, int_ok |-> TRUE, val |-> n, text |-> "#"]
Superscript == [digit |-> TRUE, int_ok |-> FALSE, val |-> 0, text |-> "sup"]
Word(w) == [digit |-> FALSE, int_ok |-> FALSE, val |-> 0, text |-> w]

\* What the Completion Port may do in grade_chunks: raise, or reply
\* "none", "0", "0,1", "1,0", "0,0", "9", "sorry", "relevant: 0,1", a
\* superscript.
Raises == [raises |-> TRUE, tokens |-> <<>>]
Reply(tokens) == [raises |-> FALSE, tokens |-> tokens]
GradeResponses ==
  {Raises,
   Reply(<<Word("none")>>),
   Reply(<<Digits(0)>>),
   Reply(<<Digits(0), Digits(1)>>),
   Reply(<<Digits(1), Digits(0)>>),
   Reply(<<Digits(0), Digits(0)>>),
   Reply(<<Digits(9)>>),
   Reply(<<Word("sorry")>>),
   Reply(<<Word("relevant: 0"), Digits(1)>>),
   Reply(<<Superscript>>)}

\* What the Completion Port may do in rewrite_query: raise, or reply a text
\* (after strip(); possibly empty).
RewriteResponses == {"raise", "", "a", "c"}

\* node_grade, line 98: raw == "none".
IsNone(tokens) == tokens = <<Word("none")>>

\* node_grade, line 101: the indices parsed from the digit tokens.
IsDigitToken(tok) == tok.digit
ParsedIdxs(tokens) ==
  LET ds == SelectSeq(tokens, IsDigitToken)
  IN  [i \in 1..Len(ds) |-> ds[i].val]

\* node_grade, line 101: int() raises on one of the digit tokens.
IntRaises(tokens) == \E i \in 1..Len(tokens) : tokens[i].digit /\ ~tokens[i].int_ok

\* Mutant of PickChunks: the chunks kept are the copies cut for the prompt.
PickChunksCut(chunks, idxs) ==
  LET ok == SelectSeq(idxs, LAMBDA i : i < Len(chunks))
  IN  [j \in 1..Len(ok) |-> [chunks[ok[j] + 1] EXCEPT !.text = "-"]]

\* node_grade, line 102: [chunks[i] for i in idxs if i < len(chunks)].
PickChunks(chunks, idxs) ==
  LET ok == SelectSeq(idxs, LAMBDA i : i < Len(chunks))
  IN  [j \in 1..Len(ok) |-> chunks[ok[j] + 1]]

\* Mutant of OnGradeError: a failed grading keeps nothing.
OnGradeErrorDropAll(chunks) == <<>>

\* node_grade, lines 103-104: the except branch keeps every chunk.
OnGradeError(chunks) == chunks

\* node_grade, lines 95-104: the relevant chunks for a port response.
GradeOutcome(chunks, resp) ==
  IF resp.raises THEN OnGradeError(chunks)
  ELSE IF IsNone(resp.tokens) THEN <<>>
  ELSE IF IntRaises(resp.tokens) THEN OnGradeError(chunks)
  ELSE PickChunks(chunks, ParsedIdxs(resp.tokens))

\* Mutant of NeedsRewrite: the budget test off by one.
NeedsRewriteOffByOne(relevant, count, max) == Len(relevant) = 0 /\ count <= max

\* node_grade, lines 84 and 106.
NeedsRewrite(relevant, count, max) == Len(relevant) = 0 /\ count < max

\* The kind of a grading response: the port raised, declared none relevant,
\* listed indices of retrieved chunks, or replied something else.
ResponseKind(chunks, resp) ==
  IF resp.raises THEN "raise"
  ELSE IF IsNone(resp.tokens) THEN "none"
  ELSE IF \A i \in 1..Len(resp.tokens) :
            /\ resp.tokens[i].digit
            /\ resp.tokens[i].int_ok
            /\ resp.tokens[i].val < Len(chunks)
       THEN "indices"
  ELSE "malformed"

\* `a or b` on lists and on strings.
OrListSecond(a, b) == b
OrList(a, b) == IF a # <<>> THEN a ELSE b
OrStr(a, b) == IF a # "" THEN a ELSE b

\* node_generate, lines 170-173: the fixed answer when there is no chunk.
NotFound == "not found"

\* node_generate, line 196: the set of "doc_name (chunk #N)" strings.
SourcesZeroBased(chunks) ==
  {<<chunks[i].doc_name, chunks[i].chunk_index>> : i \in 1..Len(chunks)}
Sources(chunks) ==
  {<<chunks[i].doc_name, chunks[i].chunk_index + 1>> : i \in 1..Len(chunks)}

\* A run may start on any store of the family, under any settings.
InitPipe ==
  /\ ThreadsIdle
  /\ \E s \in StoreFamily :
       /\ index = s.index
       /\ meta = s.meta
       /\ doc_map = s.doc_map
       /\ del_count = s.del_count
       /\ disk_index = IF s = EmptyStore THEN MissingIndex ELSE SavedIndex(s)
       /\ disk_meta = IF s = EmptyStore THEN MissingMeta ELSE SavedMeta(s)
  /\ ret = Ret("init", "-", "-", 0, 0, <<>>)
  /\ gone = {}
  /\ live = <<>>
  /\ node = "idle"
  /\ st = InitialState("-")
  /\ \E m \in 0..MaxM, k \in TopKs :
       settings = [max_rewrite_attempts |-> m, top_k_chunks |-> k]
  /\ hist = NoHistory
  /\ result = NoResult

other_vars == <<store_vars, disk_vars, hist_vars, thread_vars>>

\* run_rag, lines 257-273: the initial state is handed to the entry point.
run_rag(query) ==
  /\ node = "idle"
  /\ st' = InitialState(query)
  /\ node' = "retrieve"
  /\ UNCHANGED <<settings, hist, result, other_vars>>

\* node_retrieve, line 49: the query the next retrieve searches for.
CurrentQuery(state) == OrStr(state.rewritten_query, state.query)

\* node_retrieve, then the edge retrieve -> grade_chunks.
node_retrieve ==
  /\ node = "retrieve"
  /\ LET query == CurrentQuery(st)
     IN  /\ st' = [st EXCEPT !.retrieved_chunks =
                               SearchStore(Store, query, settings.top_k_chunks)]
         /\ hist' = [hist EXCEPT !.retrieves = @ + 1, !.searched = query]
  /\ node' = "grade_chunks"
  /\ UNCHANGED <<settings, result, other_vars>>

\* _route, line 203.
RouteAlwaysGenerate(state) == "generate"
Route(state) == IF state.needs_rewrite THEN "rewrite_query" ELSE "generate"

\* node_grade, line 84: the rewrite flag when retrieval returned nothing.
NeedsRewriteNoChunksNever(count, max) == FALSE
NeedsRewriteNoChunks(count, max) == count < max

\* node_grade, then the conditional edge (_route).
node_grade ==
  /\ node = "grade_chunks"
  /\ LET chunks == st.retrieved_chunks
         max_rewrites == settings.max_rewrite_attempts
     IN  IF chunks = <<>>
           THEN /\ st' = [st EXCEPT !.relevant_chunks = <<>>,
                                    !.needs_rewrite =
                                       NeedsRewriteNoChunks(st.rewrite_count, max_rewrites)]
                /\ hist' = [hist EXCEPT !.grade_resp = "-"]
           ELSE \E resp \in GradeResponses :
                  LET relevant == GradeOutcome(chunks, resp)
                  IN  /\ st' = [st EXCEPT
                                  !.relevant_chunks = relevant,
                                  !.needs_rewrite =
                                     NeedsRewrite(relevant, st.rewrite_count, max_rewrites)]
                      /\ hist' = [hist EXCEPT
                                    !.llm_calls = @ + 1,
                                    !.grade_resp = ResponseKind(chunks, resp),
                                    !.all_none = @ /\ relevant = <<>>]
  /\ node' = Route(st')
  /\ UNCHANGED <<settings, result, other_vars>>

\* node_rewrite, line 140: the rewrite_count the node returns.
RewriteCountKept(count) == count
RewriteCount(count) == count + 1

\* node_rewrite, then the edge rewrite_query -> retrieve. (The guard on
\* hist.rewrites only keeps the history counter finite.)
node_rewrite ==
  /\ node = "rewrite_query"
  /\ hist.rewrites <= MaxM + 1
  /\ \E resp \in RewriteResponses :
       LET original == st.query
           rewritten == IF resp = "raise" THEN original ELSE resp
       IN  /\ st' = [st EXCEPT !.rewritten_query = rewritten,
                               !.rewrite_count = RewriteCount(st.rewrite_count),
                               !.needs_rewrite = FALSE]
           /\ hist' = [hist EXCEPT
                         !.rewrites = @ + 1, !.llm_calls = @ + 1,
                         !.rewrite_resp = IF resp = "raise" THEN "raise" ELSE "reply"]
  /\ node' = "retrieve"
  /\ UNCHANGED <<settings, result, other_vars>>

\* run_rag, lines 276-282: the dict returned to the caller.
RunResultCurrentQuery(state) ==
  [status |-> "ok", answer |-> state.answer, sources |-> state.sources,
   rewritten_query |-> CurrentQuery(state),
   chunk_count |-> Len(OrList(state.relevant_chunks, state.retrieved_chunks))]
RunResult(state) ==
  [status |-> "ok", answer |-> state.answer, sources |-> state.sources,
   rewritten_query |-> state.rewritten_query,
   chunk_count |-> Len(OrList(state.relevant_chunks, state.retrieved_chunks))]

\* node_generate, lines 193-194: the Completion Port failed; RuntimeError is
\* raised through graph.invoke and out of run_rag.
OnGenerateErrorDegrades(state) == RunResult([state EXCEPT !.answer = "error message"])
OnGenerateError(state) == ErrorResult

\* node_generate, then the edge generate -> END and the return of run_rag.
node_generate ==
  /\ node = "generate"
  /\ LET chunks == OrList(st.relevant_chunks, st.retrieved_chunks)
     IN  IF chunks = <<>>
           THEN /\ st' = [st EXCEPT !.answer = NotFound, !.sources = {}]
                /\ hist' = [hist EXCEPT !.used = <<>>, !.gen_resp = "-"]
                /\ node' = "END"
                /\ result' = RunResult(st')
           ELSE \/ /\ st' = [st EXCEPT !.answer = "answer", !.sources = Sources(chunks)]
                   /\ hist' = [hist EXCEPT !.llm_calls = @ + 1, !.used = chunks,
                                            !.gen_resp = "reply"]
                   /\ node' = "END"
                   /\ result' = RunResult(st')
                \/ /\ hist' = [hist EXCEPT !.llm_calls = @ + 1, !.used = chunks,
                                            !.gen_resp = "raise"]
                   /\ result' = OnGenerateError(st)
                   /\ node' = IF result'.status = "error" THEN "failed" ELSE "END"
                   /\ UNCHANGED st
  /\ UNCHANGED <<settings, other_vars>>

PipeStep == node_retrieve \/ node_grade \/ node_rewrite \/ node_generate

NextPipe ==
  \/ \E q \in PipeQueries : run_rag(q)
  \/ node_retrieve
  \/ node_grade
  \/ node_rewrite
  \/ node_generate

SpecPipe == InitPipe /\ [][NextPipe]_vars

\* graph.invoke runs the nodes synchronously to completion: a node that can
\* run does run.
SpecPipeFair == SpecPipe /\ WF_vars(PipeStep)

\* ------------------------------------------- a caller changes a result
\* search, line 178: each result is a new dict {**m, "score": float(dist)}
\* whose values are strings, numbers and booleans. The positions of meta
\* whose record is the same object as a returned result: none.
SharedRecordsSame(s, r) ==
  {p \in 0..(Len(s.meta) - 1) :
     IsAlive(s.meta[p + 1]) /\ WithScore(s.meta[p + 1], r.score) = r}
SharedRecords(s, r) == {}

\* The caller of search sets result["deleted"] = True on the i-th result it
\* was returned; a record that is the same object changes with it.
caller_modifies(i) ==
  /\ ret.op = "search"
  /\ i \in 1..Len(ret.results)
  /\ ret' = [ret EXCEPT !.op = "modified", !.results[i].deleted = TRUE]
  /\ meta' = [p \in 1..Len(meta) |->
                IF (p - 1) \in SharedRecords(Store, ret.results[i])
                  THEN [meta[p] EXCEPT !.deleted = TRUE]
                  ELSE meta[p]]
  /\ UNCHANGED <<index, doc_map, del_count, disk_vars, gone, live, thread_vars,
                 pipe_vars>>

NextCaller ==
  \/ \E d \in DocIds, c \in SingleChunks : CrashRoom(c) /\ add_chunks(d, "f1", c)
  \/ \E d \in DocIds : delete_doc(d)
  \/ \E q \in Queries, k \in Ks : search(q, k)
  \/ \E i \in 1..MaxK : caller_modifies(i)

SpecCaller == Init /\ [][NextCaller]_vars

\* ------------------------------------------- pipeline runs side by side
\* /chat requests call run_rag concurrently; each graph.invoke runs in a
\* thread of the pool. Here pc[t] is the node run t executes next and
\* frame[t] holds its query, its RAGState, what it has been given so far
\* and its result.

\* Largest max_rewrite_attempts of the concurrent runs.
MaxRunM == 1

RunQueries == {"a", "c"}
RunGradeResponses == {Raises, Reply(<<Word("none")>>), Reply(<<Digits(0)>>)}
RunRewriteResponses == {"raise", "c"}
RunGenerateResponses == {"raise", "answer"}

\* What a node is given from outside the run: the store it searches, or the
\* response of the Completion Port (grade: to grade_chunks; text: to
\* rewrite_query and generate).
Given(store, grade, text) == [store |-> store, grade |-> grade, text |-> text]

\* node_retrieve, lines 47-56.
Retrieved(state, store, top_k) ==
  [state EXCEPT !.retrieved_chunks = SearchStore(store, CurrentQuery(state), top_k)]

\* node_grade, lines 61-107.
Graded(state, resp, max) ==
  IF state.retrieved_chunks = <<>>
    THEN [state EXCEPT !.relevant_chunks = <<>>,
                       !.needs_rewrite = NeedsRewriteNoChunks(state.rewrite_count, max)]
    ELSE LET relevant == GradeOutcome(state.retrieved_chunks, resp)
         IN  [state EXCEPT !.relevant_chunks = relevant,
                           !.needs_rewrite =
                              NeedsRewrite(relevant, state.rewrite_count, max)]

\* node_rewrite, lines 112-142.
Rewritten(state, resp) ==
  [state EXCEPT !.rewritten_query = IF resp = "raise" THEN state.query ELSE resp,
                !.rewrite_count = RewriteCount(state.rewrite_count),
                !.needs_rewrite = FALSE]

\* node_generate, lines 147-197, when it returns.
Generated(state, resp) ==
  LET chunks == OrList(state.relevant_chunks, state.retrieved_chunks)
  IN  IF chunks = <<>>
        THEN [state EXCEPT !.answer = NotFound, !.sources = {}]
        ELSE [state EXCEPT !.answer = resp, !.sources = Sources(chunks)]

\* One node of the graph, then the edge out of it: the state, the next node
\* and the result of run_rag (set when the run ends).
Step(state, at, given, max, top_k) ==
  CASE at = "retrieve" ->
         [st |-> Retrieved(state, given.store, top_k), node |-> "grade_chunks",
          result |-> NoResult]
    [] at = "grade_chunks" ->
         [st |-> Graded(state, given.grade, max),
          node |-> Route(Graded(state, given.grade, max)), result |-> NoResult]
    [] at = "rewrite_query" ->
         [st |-> Rewritten(state, given.text), node |-> "retrieve", result |-> NoResult]
    [] at = "generate" ->
         IF /\ OrList(state.relevant_chunks, state.retrieved_chunks) # <<>>
            /\ given.text = "raise"
           THEN [st |-> state, node |-> "failed", result |-> OnGenerateError(state)]
           ELSE [st |-> Generated(state, given.text), node |-> "END",
                 result |-> RunResult(Generated(state, given.text))]

\* What node `at` of a run in state `state` may be given: the store as it is
\* now, or any response of the port when the node asks it.
Givens(state, at) ==
  CASE at = "retrieve" -> {Given(Store, Raises, "-")}
    [] at = "grade_chunks" ->
         IF state.retrieved_chunks = <<>> THEN {Given(EmptyStore, Raises, "-")}
         ELSE {Given(EmptyStore, g, "-") : g \in RunGradeResponses}
    [] at = "rewrite_query" -> {Given(EmptyStore, Raises, r) : r \in RunRewriteResponses}
    [] at = "generate" ->
         IF OrList(state.relevant_chunks, state.retrieved_chunks) = <<>>
           THEN {Given(EmptyStore, Raises, "-")}
           ELSE {Given(EmptyStore, Raises, r) : r \in RunGenerateResponses}

\* The frame of a run that has not started.
RunFrame == [q |-> "-", st |-> InitialState("-"), log |-> <<>>, result |-> NoResult]

\* Where run t keeps its RAGState: `initial` is a local of run_rag (lines
\* 260-269) and graph.invoke threads it through the nodes of that call.
StateShared(t) == "t1"
StateOf(t) == t

InitRuns ==
  /\ LET s == AddChunksStore(StoreOne, "d2", "f1", <<"b">>)
     IN  /\ index = s.index
         /\ meta = s.meta
         /\ doc_map = s.doc_map
         /\ del_count = s.del_count
         /\ disk_index = SavedIndex(s)
         /\ disk_meta = SavedMeta(s)
  /\ ret = Ret("init", "-", "-", 0, 0, <<>>)
  /\ gone = {}
  /\ live = <<>>
  /\ lock = "free"
  /\ pc = [t \in Threads |-> "idle"]
  /\ frame = [t \in Threads |-> RunFrame]
  /\ serial = EmptyStore
  /\ ncalls = 0
  /\ node = "idle"
  /\ st = InitialState("-")
  /\ \E m \in 0..MaxRunM :
       settings = [max_rewrite_attempts |-> m, top_k_chunks |-> top_k_chunks]
  /\ hist = NoHistory
  /\ result = NoResult

\* run_rag(query), lines 257-273, called for run t.
run_rag_call(t, query) ==
  /\ pc[t] = "idle"
  /\ frame' = [frame EXCEPT ![t].q = query, ![t].log = <<>>,
                            ![StateOf(t)].st = InitialState(query)]
  /\ pc' = [pc EXCEPT ![t] = "retrieve"]
  /\ UNCHANGED <<store_vars, disk_vars, hist_vars, lock, serial, ncalls, pipe_vars>>

\* Run t executes its next node.
run_rag_node(t) ==
  /\ pc[t] \in {"retrieve", "grade_chunks", "rewrite_query", "generate"}
  /\ \E given \in Givens(frame[StateOf(t)].st, pc[t]) :
       LET next == Step(frame[StateOf(t)].st, pc[t], given,
                        settings.max_rewrite_attempts, settings.top_k_chunks)
       IN  /\ frame' = [frame EXCEPT ![t].log = Append(@, given),
                                     ![t].result = next.result,
                                     ![StateOf(t)].st = next.st]
           /\ pc' = [pc EXCEPT ![t] = next.node]
  /\ UNCHANGED <<store_vars, disk_vars, hist_vars, lock, serial, ncalls, pipe_vars>>

NextRuns ==
  \/ \E t \in Threads, q \in RunQueries : run_rag_call(t, q)
  \/ \E t \in Threads : run_rag_node(t)
  \/ delete_doc("d1")

SpecRuns == InitRuns /\ [][NextRuns]_vars

\* has_documents, total_vectors, active_vectors (lines 186-195).
has_documents == DOMAIN doc_map # {}
total_vectors == Len(index)
active_vectors == Len(index) - del_count

\* ----------------------------------------------------- helpers of the claims

\* Positions (0-based) of the records of mt that are present and not deleted.
AlivePositions(mt) == {p \in 0..(Len(mt) - 1) : IsAlive(mt[p + 1])}

\* Positions (0-based) of the records of mt flagged deleted.
DeletedPositions(mt) == {p \in 0..(Len(mt) - 1) : IsSome(mt[p + 1]) /\ mt[p + 1].deleted}

\* All positions listed in a doc_map, and those listed under document d.
OwnedBy(dm, d) == {dm[d][i] : i \in 1..Len(dm[d])}
Owned(dm) == UNION {OwnedBy(dm, d) : d \in DOMAIN dm}

\* What a caller compares of a result list: (doc id, chunk index, text).
View(results) ==
  [i \in 1..Len(results) |->
     <<results[i].doc_id, results[i].chunk_index, results[i].text>>]

RECURSIVE FreshStore(_)
\* A fresh index built by replaying the given add_chunks calls in order.
FreshStore(calls) ==
  IF calls = <<>> THEN EmptyStore
  ELSE LET c == calls[Len(calls)]
       IN  AddChunksStore(FreshStore(SubSeq(calls, 1, Len(calls) - 1)),
                          c.doc_id, c.doc_name, c.chunks)

\* ------------------------------------------------------------------ claims

\* C1: once delete_doc(d) has returned and no add_chunks for d followed, no
\* search, for any query and any k >= 1, returns a record of document d.
C1_DeleteVisibility ==
  \A d \in gone, q \in Queries, k \in Ks :
    \A i \in 1..Len(SearchStore(Store, q, k)) :
      SearchStore(Store, q, k)[i].doc_id # d

\* C4: between calls, the number of rows of the index equals the number of
\* slots of the metadata list.
C4_LengthInvariant == Len(index) = Len(meta)

\* C4 witness: after a rebuild that dropped rows and kept some.
C4_Witness ==
  /\ ret.op = "rebuild_index"
  /\ Len(index) >= 2
  /\ gone # {}

\* C5: the positions listed in doc_map are exactly the positions of the
\* records not deleted, and no position is listed under two documents.
C5_OwnershipInvariant ==
  /\ Owned(doc_map) = AlivePositions(meta)
  /\ \A d1 \in DOMAIN doc_map, d2 \in DOMAIN doc_map :
       d1 # d2 => OwnedBy(doc_map, d1) \cap OwnedBy(doc_map, d2) = {}

\* C6: del_count is the number of records flagged deleted, so active_vectors
\* is the number of records not deleted.
C6_DeletedCounter ==
  /\ del_count = Cardinality(DeletedPositions(meta))
  /\ active_vectors = Cardinality(AlivePositions(meta))

\* C6 witness: deletes have flagged two or more records and others remain.
C6_Witness ==
  /\ ret.op = "delete_doc"
  /\ del_count >= 2
  /\ AlivePositions(meta) # {}

\* C8: right after rebuild_index, every search returns the same (doc id,
\* chunk index, text) sequence as on a fresh index holding only the chunks of
\* the documents not deleted.
C8_CompactionCorrectness ==
  ret.op = "rebuild_index" =>
    \A q \in Queries, k \in Ks :
      View(SearchStore(Store, q, k)) = View(SearchStore(FreshStore(live), q, k))

\* The rows search may look at: the min(4k, ntotal) nearest to the query
\* over all rows, soft-deleted ones included.
Fetched(rows, q, k) ==
  {j \in 0..(Len(rows) - 1) : RankOf(rows, Embed(q), j) < Min(4 * k, Len(rows))}

\* The fetched rows whose record is present and not deleted.
Eligible(q, k) ==
  {j \in Fetched(index, q, k) : j < Len(meta) /\ IsAlive(meta[j + 1])}

\* C7: on a non-empty index, search(q, k) returns the first k (or all, if
\* fewer) records present and not deleted among the min(4k, ntotal) rows
\* nearest to q, nearest first, each with its distance as score.
C7_SearchResult ==
  (ret.op = "search" /\ Len(index) >= 1) =>
    LET qv == Embed(ret.q)
        E == Eligible(ret.q, ret.k)
        R == ret.results
    IN  /\ Len(R) = Min(ret.k, Cardinality(E))
        /\ \A i \in 1..Len(R) :
             \E j \in E :
               /\ Cardinality({e \in E : Before(index, qv, e, j)}) = i - 1
               /\ R[i] = WithScore(meta[j + 1], L2(index[j + 1], qv))
        /\ \A i \in 1..(Len(R) - 1) : R[i].score <= R[i + 1].score

\* C7 witness: a search that fetched fewer rows than the index holds, found
\* fewer than k survivors among them and returned those, while a record not
\* deleted lay outside the fetched rows.
C7_Witness ==
  /\ ret.op = "search"
  /\ Len(index) > 4 * ret.k
  /\ Len(ret.results) < ret.k
  /\ AlivePositions(meta) \ Fetched(index, ret.q, ret.k) # {}

\* C2: with threads interleaving line by line, a search reads the index only
\* in a state the calls before it produce when run one at a time (so with as
\* many rows as records), returns what search returns on that state, and
\* whenever the lock is free the store equals the result of the calls in the
\* order in which they took the lock.
C2_Atomicity ==
  /\ \A t \in Threads :
       pc[t] \in {"s_163", "s_172"} => (Len(index) = Len(meta) /\ Store = serial)
  /\ \A t \in Threads :
       (pc[t] = "release" /\ frame[t].op = "search") =>
         frame[t].results = SearchStore(serial, frame[t].q, frame[t].k)
  /\ lock = "free" => Store = serial

\* C2 witness: a search is reading a non-empty index while another thread's
\* mutating call waits for the lock.
C2_Witness ==
  \E t \in Threads, u \in Threads :
    /\ pc[t] = "s_172"
    /\ pc[u] \in {"add_72", "del_103", "rb_123"}
    /\ Len(index) >= 2

\* C3: whatever the Completion Port does in grade_chunks and rewrite_query,
\* a run reaches generate, having executed at most M rewrites and at most
\* M + 1 retrievals (M = max_rewrite_attempts); when every grading kept
\* nothing, exactly M rewrites and M + 1 retrievals.
C3_RetryTermination ==
  /\ [](node = "generate" =>
          /\ hist.rewrites <= settings.max_rewrite_attempts
          /\ hist.retrieves <= settings.max_rewrite_attempts + 1
          /\ hist.all_none =>
               /\ hist.rewrites = settings.max_rewrite_attempts
               /\ hist.retrieves = settings.max_rewrite_attempts + 1)
  /\ (node = "retrieve") ~> (node = "generate")

\* C3 witness: with the default M = 2, generate is reached after gradings
\* that never kept a chunk although the port was asked.
C3_Witness ==
  /\ node = "generate"
  /\ settings.max_rewrite_attempts = 2
  /\ hist.all_none
  /\ hist.rewrites = 2
  /\ hist.retrieves = 3
  /\ hist.llm_calls > hist.rewrites

\* C9: when the Completion Port raised in grade_chunks (so at least one chunk
\* was retrieved), the relevant chunks are the retrieved chunks, no rewrite
\* is requested, the next node is generate, and generate builds its context
\* from exactly those chunks.
C9_GradeFailureKeepsAll ==
  hist.grade_resp = "raise" =>
    /\ st.retrieved_chunks # <<>>
    /\ st.relevant_chunks = st.retrieved_chunks
    /\ ~st.needs_rewrite
    /\ node \in {"generate", "END", "failed"}
    /\ node \in {"END", "failed"} => hist.used = st.retrieved_chunks

\* C9 witness: a run ended after a grading failure on two or more chunks
\* while rewrites were still allowed.
C9_Witness ==
  /\ hist.grade_resp = "raise"
  /\ node = "END"
  /\ Len(st.retrieved_chunks) >= 2
  /\ st.rewrite_count < settings.max_rewrite_attempts

\* C10: when the Completion Port's grading reply is neither "none" nor a
\* list of indices of retrieved chunks, every retrieved chunk is kept as
\* relevant.
C10_MalformedKeepsAll ==
  hist.grade_resp = "malformed" => st.relevant_chunks = st.retrieved_chunks

\* ------------------------------------------------------ the pipeline, again

\* C11: whenever the Completion Port fails during a rewrite_query step, the
\* first or a later one, the query the next retrieve searches for is the query
\* that was current before the step, rewrite_count grows by exactly one and
\* the rewrite flag is cleared.
C11_RewriteFailure ==
  [][(node = "rewrite_query" /\ hist'.rewrites = hist.rewrites + 1
        /\ hist'.rewrite_resp = "raise")
       => /\ CurrentQuery(st') = CurrentQuery(st)
          /\ st'.rewrite_count = st.rewrite_count + 1
          /\ ~st'.needs_rewrite]_vars

\* The run is over: run_rag returned or raised.
RunOver == node \in {"END", "failed"}

\* C12 (as stated): a run against an index holding no vectors returns the fixed
\* not-found answer with empty sources, and the Completion Port is invoked
\* zero times over the whole run.
C12_ZeroPortCalls ==
  (Len(index) = 0 /\ RunOver)
    => /\ result.status = "ok"
       /\ result.answer = NotFound
       /\ result.sources = {}
       /\ hist.llm_calls = 0

\* C12 (amended): a run against an index holding no vectors returns the fixed
\* not-found answer with empty sources; grade_chunks and generate never invoke
\* the Completion Port, and rewrite_query invokes it once per rewrite, which
\* makes max_rewrite_attempts invocations over the whole run.
C12_EmptyIndexRun ==
  Len(index) = 0
    => /\ hist.llm_calls = hist.rewrites
       /\ hist.grade_resp = "-"
       /\ hist.gen_resp = "-"
       /\ RunOver => /\ result.status = "ok"
                     /\ result.answer = NotFound
                     /\ result.sources = {}
                     /\ hist.llm_calls = settings.max_rewrite_attempts

C12_Witness ==
  /\ Len(index) = 0
  /\ node = "END"
  /\ settings.max_rewrite_attempts = 2
  /\ hist.llm_calls = 2

\* What the last retrieval pass returned.
LastPass == SearchStore(Store, hist.searched, settings.top_k_chunks)

\* C13: generate builds its context from the relevant chunks of the last pass
\* when there are any, otherwise from the chunks the last pass retrieved; it
\* returns the not-found answer with empty sources, without asking the
\* Completion Port, exactly when the last pass retrieved nothing.
C13_CandidateSelection ==
  RunOver
    => /\ hist.used = IF st.relevant_chunks # <<>> THEN st.relevant_chunks ELSE LastPass
       /\ (node = "END" /\ hist.used # <<>>) => result.sources = Sources(hist.used)
       /\ (/\ result.status = "ok"
           /\ result.answer = NotFound
           /\ result.sources = {}
           /\ hist.gen_resp = "-") <=> (LastPass = <<>>)

C13_Witness ==
  /\ node = "END"
  /\ st.relevant_chunks # <<>>
  /\ st.relevant_chunks # LastPass
  /\ hist.rewrites >= 1

C15_Routing ==
  [][/\ node = "retrieve" => node' = "grade_chunks"
     /\ node = "rewrite_query" => node' = "retrieve"
     /\ node = "grade_chunks"
          => node' = IF /\ st'.relevant_chunks = <<>>
                        /\ st'.rewrite_count < settings.max_rewrite_attempts
                       THEN "rewrite_query" ELSE "generate"]_vars

C15_Witness ==
  /\ node = "rewrite_query"
  /\ hist.grade_resp = "none"
  /\ hist.rewrites = 1

\* C16: rewrite_count starts at 0, never decreases, changes only in a
\* rewrite_query step, by exactly one whether the Completion Port replied or
\* failed, and never exceeds max_rewrite_attempts.
C16_RetryBudget ==
  /\ st.rewrite_count = 0
  /\ [](st.rewrite_count \in 0..settings.max_rewrite_attempts)
  /\ [][st'.rewrite_count =
          IF node = "rewrite_query" THEN st.rewrite_count + 1 ELSE st.rewrite_count]_vars

C16_Witness ==
  /\ node = "END"
  /\ st.rewrite_count = settings.max_rewrite_attempts
  /\ st.rewrite_count = 2
  /\ hist.rewrite_resp = "raise"

\* -------------------------------------------------------- the store, again

\* No insert of document d has happened since d was last deleted (or ever).
NotInserted(d) == \A i \in 1..Len(live) : live[i].doc_id # d

\* C17: delete_doc on an id that was never inserted, or on one already
\* deleted, leaves the records, the doc map, the matrix and the deleted
\* counter exactly as they were.
C17_IdempotentDelete ==
  [][(ret'.op = "delete_doc" /\ NotInserted(ret'.doc)) => UNCHANGED store_vars]_vars

\* C18: an insert of n >= 1 chunks returns n and puts n new records, not
\* deleted, at the fresh positions old_N .. old_N + n - 1; the i-th carries
\* the document id, the name, chunk_index i and text chunks[i], and its row is
\* the embedding of that text; all these positions are listed under the
\* document id; every record and row that existed before is unchanged.
C18_InsertPostcondition ==
  [][(ret'.op = "add_chunks" /\ ret'.count >= 1)
       => LET call == live'[Len(live')]
              n == Len(call.chunks)
              old_N == Len(index)
          IN  /\ ret'.count = n
              /\ ret'.doc = call.doc_id
              /\ Len(index') = old_N + n
              /\ Len(meta') = old_N + n
              /\ \A i \in 0..(n - 1) :
                   /\ meta'[old_N + i + 1] =
                        [doc_id |-> call.doc_id, doc_name |-> call.doc_name,
                         chunk_index |-> i, text |-> call.chunks[i + 1],
                         deleted |-> FALSE]
                   /\ index'[old_N + i + 1] = Embed(call.chunks[i + 1])
                   /\ (old_N + i) \in OwnedBy(doc_map', call.doc_id)
              /\ \A p \in 1..Len(meta) : meta'[p] = meta[p]
              /\ \A p \in 1..Len(index) : index'[p] = index[p]]_vars

C18_Witness ==
  /\ ret.op = "add_chunks"
  /\ ret.count = 2
  /\ Len(index) = 3
  /\ DeletedPositions(meta) # {}

\* C19: an insert for a document id that already owns positions adds the new
\* positions to the ones it owns, so that the document owns both sets; and
\* after a delete of the document none of its records is left alive.
C19_ReinsertAppends ==
  /\ [][(ret'.op = "add_chunks" /\ ret'.count >= 1 /\ ret'.doc \in DOMAIN doc_map)
          => OwnedBy(doc_map', ret'.doc) =
               OwnedBy(doc_map, ret'.doc) \cup (Len(index)..(Len(index') - 1))]_vars
  /\ [](ret.op = "delete_doc"
          => \A p \in AlivePositions(meta) : meta[p + 1].doc_id # ret.doc)

\* An insert of at least one chunk, a delete or a compaction has returned.
Mutated(r) ==
  \/ r.op = "add_chunks" /\ r.count >= 1
  \/ r.op \in {"delete_doc", "rebuild_index"}

\* C20: after a completed insert of at least one chunk, delete or compaction,
\* the files hold the state in memory, and a new instance built from the same
\* directory has the same matrix rows, records, doc map and deleted counter.
C20_PersistenceRoundTrip ==
  /\ [](Mutated(ret) => LoadStore(EmptyStore, disk_index, disk_meta) = Store)
  /\ [][(Mutated(ret) /\ ret'.op = "VectorStore") => UNCHANGED store_vars]_vars

C20_Witness ==
  /\ ret.op = "VectorStore"
  /\ del_count >= 1
  /\ AlivePositions(meta) # {}
  /\ Len(index) = 3

\* ------------------------------------------------- restarts on damaged files

\* Both files exist and read back without an exception.
FilesSound ==
  /\ disk_index.present /\ disk_index.readable
  /\ disk_meta.present /\ disk_meta.readable

\* C21: when at load time either file is missing or unreadable, in any
\* combination, the new instance is fresh and empty: no rows, no records, an
\* empty doc map and a deleted counter of 0.
C21_LoadFallback ==
  (ret.op = "VectorStore" /\ ~FilesSound) => Store = EmptyStore

\* C25: when the process stops anywhere inside a mutating call, in particular
\* between the write of index.bin and the write of meta.pkl, the instance a
\* restart loads has as many matrix rows as records.
C25_CrashConsistency ==
  ret.op = "VectorStore" => Len(index) = Len(meta)

\* ------------------------------------------------------ readers of the store

\* C22: has_documents() is true exactly when the doc map is non-empty; once
\* every inserted document has been deleted it is false; and a delete leaves
\* total_vectors at the number of rows inserted since the last compaction.
C22_HasVectors ==
  /\ [](has_documents <=> DOMAIN doc_map # {})
  /\ [](live = <<>> => ~has_documents)
  /\ [][ret'.op = "delete_doc" => total_vectors' = total_vectors]_vars

\* C23: a run that returned an answer built from at least one chunk returns
\* as sources exactly one entry (document name, chunk_index + 1) for each
\* distinct pair among the chunks generate used, and no other entry.
C23_SourceList ==
  (node = "END" /\ hist.used # <<>>)
    => /\ \A i \in 1..Len(hist.used) :
            <<hist.used[i].doc_name, hist.used[i].chunk_index + 1>> \in result.sources
       /\ \A e \in result.sources :
            \E i \in 1..Len(hist.used) :
              e = <<hist.used[i].doc_name, hist.used[i].chunk_index + 1>>
       /\ Cardinality(result.sources) =
            Cardinality({<<hist.used[i].doc_name, hist.used[i].chunk_index>> :
                           i \in 1..Len(hist.used)})

C23_Witness ==
  /\ node = "END"
  /\ Len(hist.used) = 3
  /\ Cardinality(result.sources) = 2
  /\ Len(st.retrieved_chunks) = 3

\* Lines at which a thread reads the store outside the methods' `with` blocks.
ReaderLines == {"rb_146", "hd_187", "tv_191", "av_195", "av_195_sub"}

\* C24: every read of the store, those of has_documents, total_vectors,
\* active_vectors and of the return value of rebuild_index included, is made
\* by a thread that holds the lock.
C24_ReadersHoldLock ==
  \A t \in Threads : pc[t] \in ReaderLines => lock = t

\* The indexing task of document d has finished; a delete request for d has
\* been answered with success.
TaskFinished(d) ==
  \E t \in Threads :
    frame[t].op = "process_document" /\ frame[t].doc = d /\ pc[t] = "idle"
DeleteAnswered(d) ==
  \E t \in Threads :
    /\ frame[t].op = "delete_doc_route" /\ frame[t].doc = d
    /\ pc[t] = "idle" /\ frame[t].count = 200

\* C26: however the indexing task of a document and a delete request for it
\* interleave, once both are over the index holds no record of the document
\* that is not deleted, and no search returns one.
C26_DeleteVersusIndexing ==
  \A d \in DocIds :
    (TaskFinished(d) /\ DeleteAnswered(d))
      => /\ \A p \in AlivePositions(meta) : meta[p + 1].doc_id # d
         /\ \A q \in Queries, k \in Ks :
              \A i \in 1..Len(SearchStore(Store, q, k)) :
                SearchStore(Store, q, k)[i].doc_id # d

\* C27: when the Embedding Port fails inside add_chunks, search or
\* rebuild_index, the rows, the records, the doc map, the deleted counter and
\* both files are exactly as they were before the call.
C27_EmbeddingFailure ==
  [][ret'.op = "raise" => UNCHANGED <<store_vars, disk_vars>>]_vars

C27_Witness ==
  /\ ret.op = "raise"
  /\ ret.q = "rebuild_index"
  /\ del_count >= 1
  /\ Len(index) = 3

\* The records of mt that are present and not deleted, in their order: the
\* i-th is the record at the alive position with i - 1 alive positions below.
Survivors(mt) ==
  [i \in 1..Cardinality(AlivePositions(mt)) |->
     mt[1 + CHOOSE p \in AlivePositions(mt) :
              Cardinality({r \in AlivePositions(mt) : r < p}) = i - 1]]

\* The state rebuild_index leaves for the surviving records `alive`.
Compacted(alive) ==
  /\ meta = alive
  /\ Len(index) = Len(alive)
  /\ \A i \in 1..Len(alive) : index[i] = Embed(alive[i].text)
  /\ DOMAIN doc_map = {alive[i].doc_id : i \in 1..Len(alive)}
  /\ \A d \in DOMAIN doc_map :
       /\ OwnedBy(doc_map, d) = {i - 1 : i \in {j \in 1..Len(alive) : alive[j].doc_id = d}}
       /\ Len(doc_map[d]) = Cardinality(OwnedBy(doc_map, d))
  /\ del_count = 0

\* C28: right after rebuild_index the records are exactly those that were not
\* deleted before the call, in their order and unchanged; the matrix has one
\* row per record; the doc map lists for each surviving document the new
\* positions of its records; the deleted counter is 0; and the value
\* returned is the number of surviving records.
C28_CompactionPostcondition ==
  \A t \in Threads :
    frame[t].op = "rebuild_index"
      => /\ pc[t] \in {"rb_126", "rb_137"} => frame[t].alive = Survivors(meta)
         /\ pc[t] = "release" => Compacted(frame[t].alive)
         /\ pc[t] = "idle" => frame[t].count = Len(frame[t].alive)

\* C30 (as stated): the query reported in the result of a run is the query
\* the last retrieve of the run searched for: the original query when no
\* rewrite took place, the latest rewritten query otherwise.
C30_FinalQueryReported ==
  node = "END" => result.rewritten_query = hist.searched

\* C30 (amended): the rewritten_query of a result is the text of the latest
\* rewrite, and the empty string when no rewrite took place; when it is not
\* empty it is the query the last retrieve searched for, and when it is
\* empty the last retrieve searched for the original query.
C30_RewrittenQueryReported ==
  node = "END"
    => /\ result.rewritten_query = st.rewritten_query
       /\ hist.rewrites = 0 => result.rewritten_query = ""
       /\ result.rewritten_query # "" => result.rewritten_query = hist.searched
       /\ result.rewritten_query = "" => hist.searched = st.query

C30_Witness ==
  /\ node = "END"
  /\ hist.rewrites >= 1
  /\ st.query = "a"
  /\ result.rewritten_query = "c"

RECURSIVE RunAlone(_, _, _, _, _)
\* A run executed alone: from `cur` (state, node, result), the nodes are given
\* log[i], log[i + 1], ... in turn.
RunAlone(cur, log, i, max, top_k) ==
  IF i > Len(log) THEN cur
  ELSE RunAlone(Step(cur.st, cur.node, log[i], max, top_k), log, i + 1, max, top_k)

C31_FullResult ==
  (/\ ret.op = "search"
   /\ Cardinality(DeletedPositions(meta)) <= 3 * ret.k
   /\ Len(meta) = Len(index)
   /\ \A i \in 1..Len(meta) : IsSome(meta[i])) =>
    LET qv == Embed(ret.q)
        A == AlivePositions(meta)
        R == ret.results
    IN  /\ Len(R) = Min(ret.k, Cardinality(A))
        /\ \A i \in 1..Len(R) :
             \E j \in A :
               /\ Cardinality({e \in A : Before(index, qv, e, j)}) = i - 1
               /\ R[i] = WithScore(meta[j + 1], L2(index[j + 1], qv))
        /\ \A i \in 1..(Len(R) - 1) : R[i].score <= R[i + 1].score

\* C31 witness: a search on more than 4k rows of which exactly 3k are
\* soft-deleted, all of them nearer to q than the k records returned.
C31_Witness ==
  /\ ret.op = "search"
  /\ Len(index) > 4 * ret.k
  /\ Cardinality(DeletedPositions(meta)) = 3 * ret.k
  /\ Len(ret.results) = ret.k
  /\ \A d \in DeletedPositions(meta) :
       L2(index[d + 1], Embed(ret.q)) < ret.results[1].score

\* C32: in every grade_chunks step, whatever the Completion Port did, each
\* relevant chunk the step leaves is one of the chunks retrieved in the same
\* pass, and the retrieved chunks are as they were before the step.
C32_RelevantFromRetrieved ==
  [][(node = "grade_chunks" /\ node' # node) =>
       /\ \A i \in 1..Len(st'.relevant_chunks) :
            \E j \in 1..Len(st.retrieved_chunks) :
              st'.relevant_chunks[i] = st.retrieved_chunks[j]
       /\ st'.retrieved_chunks = st.retrieved_chunks]_vars

\* C32 witness: a grading reply that named one retrieved chunk twice, and
\* the chunk kept twice.
C32_Witness ==
  /\ node = "generate"
  /\ hist.grade_resp = "indices"
  /\ Len(st.retrieved_chunks) >= 2
  /\ Len(st.relevant_chunks) = 2
  /\ st.relevant_chunks[1] = st.relevant_chunks[2]

\* C33: search(q, k) leaves the rows, the records, the document-to-positions
\* mapping, the deleted count and both files as they were, and so does a
\* caller that modifies a result it was returned.
C33_SearchReadOnly ==
  [][ret'.op \in {"search", "modified"} => UNCHANGED <<store_vars, disk_vars>>]_vars

\* C33 witness: the caller marked a returned result deleted, and the record
\* it was built from is still in the index, not deleted.
C33_Witness ==
  /\ ret.op = "modified"
  /\ \E i \in 1..Len(ret.results), p \in 1..Len(meta) :
       /\ ret.results[i].deleted
       /\ IsAlive(meta[p])
       /\ WithScore(meta[p], ret.results[i].score)
            = [ret.results[i] EXCEPT !.deleted = FALSE]

====
